---- MODULE Spec2Model ----
(***************************************************************************)
(* Model of the truth_engine ingestion-and-enrichment pipeline:            *)
(*   - the Batch Loader of ingest_notes.py (main, insert_batch), and       *)
(*   - the Enrichment Loop of enrich_pairs.py (main, get_null_rows,        *)
(*     fetch_tweet_details, update_row),                                   *)
(* both working on the fact_checks table of init_db.py/update_schema.py.   *)
(*                                                                         *)
(* A nullable value is NULL (the empty tuple) or Val(x) (a 1-tuple).       *)
(* Strings that the code takes apart (URLs, str(tweet_id)) are sequences   *)
(* of one-character strings.                                               *)
(***************************************************************************)
EXTENDS Integers, Sequences, FiniteSets, TLC

\* ---------------------------------------------------------------- bounds
\* ingest_notes.BATCH_SIZE (1000 in the source), scaled down.
INGEST_BATCH_SIZE == 2
\* enrich_pairs.BATCH_SIZE (100 in the source), scaled down.
ENRICH_BATCH_SIZE == 2
\* How many times each process (loader, enrichment loop) may be killed.
MaxCrashes == 1
\* How many times the Batch Loader is started.
MaxRuns == 2

\* How many rows the notes file and the status-history file hold.
MaxNotesRows == 3
MaxStatusRows == 3
\* How many times midnight may pass while download_latest_data runs.
MaxTicks == 1
\* range(3) of download_latest_data: how many days are tried.
DAYS_TRIED == 3

\* ------------------------------------------------------- nullable values
NULL == <<>>
Val(x) == <<x>>

Min(a, b) == IF a < b THEN a ELSE b

\* ------------------------------------------------------- strings as chars
Digits == <<"0", "1", "2", "3", "4", "5", "6", "7", "8", "9">>
DigitChars == {"0", "1", "2", "3", "4", "5", "6", "7", "8", "9"}

\* Python str(n) of an int.
RECURSIVE StrNat(_)
StrNat(n) == IF n < 10 THEN <<Digits[n + 1]>>
             ELSE StrNat(n \div 10) \o <<Digits[(n % 10) + 1]>>

Str(n) == IF n < 0 THEN <<"-">> \o StrNat(0 - n) ELSE StrNat(n)

\* "https://twitter.com/i/web/status/"
URL_PREFIX == <<"h","t","t","p","s",":","/","/","t","w","i","t","t","e","r",
                ".","c","o","m","/","i","/","w","e","b","/","s","t","a","t",
                "u","s","/">>

\* f"https://twitter.com/i/web/status/{tid}"
BuildUrl(tid) == URL_PREFIX \o Str(tid)

\* The last position of ch in s[1..i], 0 when there is none.
RECURSIVE LastPos(_, _, _)
LastPos(s, ch, i) ==
    IF i = 0 THEN 0
    ELSE IF s[i] = ch THEN i
    ELSE LastPos(s, ch, i - 1)

\* The first position of ch in s[i..], Len(s) + 1 when there is none.
RECURSIVE FirstPos(_, _, _)
FirstPos(s, ch, i) ==
    IF i > Len(s) THEN Len(s) + 1
    ELSE IF s[i] = ch THEN i
    ELSE FirstPos(s, ch, i + 1)

\* s.split(ch)[-1]: what follows the last ch (all of s when there is none).
SplitLast(s, ch) == SubSeq(s, LastPos(s, ch, Len(s)) + 1, Len(s))

\* s.split(ch)[0]: what precedes the first ch (all of s when there is none).
SplitFirst(s, ch) == SubSeq(s, 1, FirstPos(s, ch, 1) - 1)

\* str.isdigit(): non-empty and every character a digit.
IsDigit(s) == s # <<>> /\ \A i \in DOMAIN s : s[i] \in DigitChars

\* tweet_url.split("/")[-1].split("?")[0]
ExtractTweetId(tweet_url) == SplitFirst(SplitLast(tweet_url, "/"), "?")

\* --------------------------------------------------- embedding provider
\* model.encode(text).tolist(): a deterministic function of the text.
Embed(text) == <<"embedding", text>>

\* generate_embeddings_batch
generate_embeddings_batch(texts) == [i \in DOMAIN texts |-> Embed(texts[i])]

\* ------------------------------------------------------------ fact_checks
\* A row of fact_checks; its id (SERIAL) is its index in the table.
\* created_at is set by the store at insert and read by no code modelled here.
NewRow(tweet_id, tweet_url, note_text, note_vector) ==
    [tweet_id     |-> tweet_id,
     tweet_url    |-> tweet_url,
     tweet_text   |-> NULL,
     tweet_vector |-> NULL,
     tweet_format |-> NULL,
     note_text    |-> note_text,
     note_vector  |-> note_vector]

\* One VALUES tuple of the INSERT ... ON CONFLICT (tweet_id) DO UPDATE.
UpsertRow_insert_only(table, t) ==
    Append(table, NewRow(t[1], t[2], t[3], t[4]))

UpsertRow_replace(table, t) ==
    IF \E i \in DOMAIN table : table[i].tweet_id = t[1]
    THEN [i \in DOMAIN table |->
            IF table[i].tweet_id = t[1]
            THEN NewRow(t[1], t[2], t[3], t[4])
            ELSE table[i]]
    ELSE Append(table, NewRow(t[1], t[2], t[3], t[4]))

UpsertRow_clears_format(table, t) ==
    IF \E i \in DOMAIN table : table[i].tweet_id = t[1]
    THEN [i \in DOMAIN table |->
            IF table[i].tweet_id = t[1]
            THEN [table[i] EXCEPT !.tweet_url = t[2],
                                  !.tweet_format = NULL,
                                  !.note_text = t[3],
                                  !.note_vector = t[4]]
            ELSE table[i]]
    ELSE Append(table, NewRow(t[1], t[2], t[3], t[4]))

UpsertRow(table, t) ==
    IF \E i \in DOMAIN table : table[i].tweet_id = t[1]
    THEN [i \in DOMAIN table |->
            IF table[i].tweet_id = t[1]
            THEN [table[i] EXCEPT !.tweet_url = t[2],
                                  !.note_text = t[3],
                                  !.note_vector = t[4]]
            ELSE table[i]]
    ELSE Append(table, NewRow(t[1], t[2], t[3], t[4]))

\* insert_batch: execute_values over batch_data, in the caller's transaction.
RECURSIVE insert_batch(_, _)
insert_batch(table, batch_data) ==
    IF batch_data = <<>> THEN table
    ELSE insert_batch(UpsertRow(table, Head(batch_data)), Tail(batch_data))

\* What the table holds once a connection with uncommitted batch_data is
\* lost. The connection is opened with psycopg2's default (autocommit off):
\* the statements since the last commit are one transaction, undone as a whole.
Rollback_autocommit(table, batch_data) ==
    IF batch_data = <<>> THEN table ELSE UpsertRow(table, Head(batch_data))

Rollback(table, batch_data) == table

\* ----------------------------------------------------------- Batch Loader
\* batch_df = helpful_notes.iloc[batch_start:batch_end] (0-based, end excluded)
BatchSlice(notes, start) ==
    SubSeq(notes, start + 1, Min(start + INGEST_BATCH_SIZE, Len(notes)))

\* summaries = batch_df["summary"].fillna("")
FillNa(summary) == IF summary = NULL THEN "" ELSE summary[1]

\* batch_data of one chunk: (tweet_id, tweet_url, note_text, note_vector)
BatchData(batch_df) ==
    LET tweet_ids    == [i \in DOMAIN batch_df |-> batch_df[i].tweetId]
        summaries    == [i \in DOMAIN batch_df |-> FillNa(batch_df[i].summary)]
        tweet_urls   == [i \in DOMAIN batch_df |-> BuildUrl(tweet_ids[i])]
        note_vectors == generate_embeddings_batch(summaries)
    IN  [i \in DOMAIN batch_df |->
            <<tweet_ids[i], Val(tweet_urls[i]), Val(summaries[i]), Val(note_vectors[i])>>]

\* total_batches = (total_notes + BATCH_SIZE - 1) // BATCH_SIZE
TotalBatches(notes) == (Len(notes) + INGEST_BATCH_SIZE - 1) \div INGEST_BATCH_SIZE

\* The table after the first k passes of main's for loop, run without
\* interruption on `table`.
RECURSIVE LoadChunks(_, _, _)
LoadChunks(table, notes, k) ==
    IF k = 0 THEN table
    ELSE insert_batch(LoadChunks(table, notes, k - 1),
                      BatchData(BatchSlice(notes, (k - 1) * INGEST_BATCH_SIZE)))

\* --------------------------------------------------------------- inputs
\* The notes the notes file may hold, as (tweetId, summary). A negative
\* tweetId makes a URL whose last segment is not all digits; a NULL summary
\* is a note without text.
NoteRows ==
    {[tweetId |-> -1, summary |-> Val("note")],
     [tweetId |-> 7,  summary |-> NULL],
     [tweetId |-> 42, summary |-> Val("note")]}

\* The notes table after drop_duplicates(subset=['tweetId']): no tweetId twice.
DedupedInputs ==
    {s \in UNION {[1 .. n -> NoteRows] : n \in 0 .. Cardinality(NoteRows)} :
        \A i, j \in DOMAIN s : i # j => s[i].tweetId # s[j].tweetId}

\* ------------------------------------------------------------- variables
VARIABLES
    now,            \* the calendar day datetime.now() falls on, as a day number
    fs,             \* the dated TSV files under data/, as <<day, base_name>>
    dpc,            \* download_latest_data: "idle", "day", "dataset", "zip",
                    \*   "tsv", "legacy", "dayend", "returned"
    days_ago,       \* download_latest_data: the loop variable
    date,           \* download_latest_data: the day of this pass of the loop
    success,        \* download_latest_data: the flag of this pass
    local_paths,    \* download_latest_data: the paths collected in this pass
    ds,             \* download_latest_data: the position in DATASETS
    tried,          \* the download_file calls made for the present dataset
    paths,          \* main: what download_latest_data returned (NULL is None)
    notes_df,       \* Filter & Dedup: the rows of the notes file, in file order
    status_df,      \* Filter & Dedup: the rows of the status-history file
    fpc,            \* Filter & Dedup: "load", "dedup", "ready", "exit"
    helpful_notes,  \* the deduplicated notes table the Batch Loader walks
    db,             \* fact_checks, committed rows only
    lpc,            \* Batch Loader: "idle", "batch", "commit", "done", "crashed"
    batch_start,    \* Batch Loader: the loop variable of main
    ltxn,           \* Batch Loader: batch_data executed and not yet committed
    runs,           \* Batch Loader starts so far
    lcrashes,       \* Batch Loader: kills so far
    pc,             \* Enrichment Loop p: "fetch", "row", "commit", "done", "crashed"
    rows,           \* Enrichment Loop p: what is left of get_null_rows' result
    result,         \* Enrichment Loop p: main's local `result` (NULL is None)
    etxn,           \* Enrichment Loop p: the UPDATE executed and not yet committed
    ecrashes,       \* Enrichment Loop p: kills so far
    response        \* Query Service: what GET /api/search returned (NULL: no
                    \*   request yet)

vars == <<now, fs, dpc, days_ago, date, success, local_paths, ds, tried, paths,
          notes_df, status_df, fpc, helpful_notes, db, lpc, batch_start, ltxn, runs, lcrashes,
          pc, rows, result, etxn, ecrashes, response>>

\* What main of ingest_notes.py works on before its Batch Loader part.
fetchVars == <<now, fs, dpc, days_ago, date, success, local_paths, ds, tried, paths>>
upstreamVars == <<fetchVars, notes_df, status_df, fpc>>

\* download_latest_data is not running.
FetcherIdle ==
    /\ now = 0
    /\ fs = {}
    /\ dpc = "idle"
    /\ days_ago = 0
    /\ date = 0
    /\ success = TRUE
    /\ local_paths = <<>>
    /\ ds = 1
    /\ tried = <<>>
    /\ paths = NULL

loaderVars == <<lpc, batch_start, ltxn, runs, lcrashes>>
enrichVars == <<pc, rows, result, etxn, ecrashes>>

\* The Enrichment Loop processes that may exist.
Procs == {1, 2}

\* The Batch Loader part of main starts from a deduplicated notes table.
Init ==
    /\ FetcherIdle
    /\ notes_df = <<>>
    /\ status_df = <<>>
    /\ fpc = "ready"
    /\ helpful_notes \in DedupedInputs
    /\ db = <<>>
    /\ lpc = "idle"
    /\ batch_start = 0
    /\ ltxn = <<>>
    /\ runs = 0
    /\ pc = [p \in Procs |-> "fetch"]
    /\ rows = [p \in Procs |-> <<>>]
    /\ result = [p \in Procs |-> NULL]
    /\ etxn = [p \in Procs |-> NULL]
    /\ lcrashes = 0
    /\ ecrashes = [p \in Procs |-> 0]
    /\ response = NULL

\* --------------------------------------------------- Batch Loader actions
\* main, up to the first chunk: an empty table returns before connecting.
LoaderStart ==
    /\ lpc \in {"idle", "done", "crashed"}
    /\ runs < MaxRuns
    /\ runs' = runs + 1
    /\ batch_start' = 0
    /\ ltxn' = <<>>
    /\ lpc' = IF helpful_notes = <<>> THEN "done" ELSE "batch"
    /\ UNCHANGED <<upstreamVars, response, helpful_notes, db, lcrashes, enrichVars>>

\* One pass of the for loop up to insert_batch: the chunk's rows are written
\* in the open transaction, invisible to others until the commit.
LoaderInsertBatch ==
    /\ lpc = "batch"
    /\ ltxn' = BatchData(BatchSlice(helpful_notes, batch_start))
    /\ lpc' = "commit"
    /\ UNCHANGED <<upstreamVars, response, helpful_notes, db, batch_start, runs, lcrashes, enrichVars>>

\* conn.commit() and the step of range(0, total_notes, BATCH_SIZE).
LoaderCommit ==
    /\ lpc = "commit"
    /\ db' = insert_batch(db, ltxn)
    /\ ltxn' = <<>>
    /\ batch_start' = batch_start + INGEST_BATCH_SIZE
    /\ lpc' = IF batch_start' < Len(helpful_notes) THEN "batch" ELSE "done"
    /\ UNCHANGED <<upstreamVars, response, helpful_notes, runs, lcrashes, enrichVars>>

\* The process dies: the open transaction is rolled back by the store.
LoaderCrash ==
    /\ lpc \in {"batch", "commit"}
    /\ lcrashes < MaxCrashes
    /\ lcrashes' = lcrashes + 1
    /\ db' = Rollback(db, ltxn)
    /\ ltxn' = <<>>
    /\ lpc' = "crashed"
    /\ UNCHANGED <<upstreamVars, response, helpful_notes, batch_start, runs, enrichVars>>

\* ------------------------------------------------------- content API
\* What requests.get(api_url, ...) can do: raise (timeout, connection error),
\* or answer with a status code and a body; data is NULL when the body is
\* not JSON, else the keys of the JSON object the code looks at:
\*   text   : NULL (no "text" key) or Val(string)
\*   video  : whether "video" is a key
\*   photos : NULL (no "photos" key), Val(len(data["photos"])), or
\*            Val(UNSIZED) when the value has no len() (null, a number)
UNSIZED == -1

ApiData ==
    {Val([text |-> Val("claim"), video |-> v, photos |-> ph]) :
        v \in BOOLEAN, ph \in {NULL, Val(0), Val(1)}}
    \cup
    {Val([text |-> t, video |-> FALSE, photos |-> NULL]) :
        t \in {NULL, Val("MISSING"), Val("MISSING_OR_DELETED")}}

OkResponses == {[raised |-> FALSE, status_code |-> 200, data |-> d] : d \in ApiData}
NotFoundResponse == [raised |-> FALSE, status_code |-> 404, data |-> NULL]
\* A body whose "photos" is not a list: len() raises on it.
MalformedData == Val([text |-> Val("claim"), video |-> FALSE, photos |-> Val(UNSIZED)])

ErrorResponses ==
    {[raised |-> TRUE,  status_code |-> 0,   data |-> NULL],
     [raised |-> FALSE, status_code |-> 500, data |-> NULL],
     [raised |-> FALSE, status_code |-> 200, data |-> NULL],
     [raised |-> FALSE, status_code |-> 200, data |-> MalformedData]}

Responses == OkResponses \cup {NotFoundResponse} \cup ErrorResponses

\* The answers under which a processed record always resolves.
ResolvingResponses == OkResponses \cup {NotFoundResponse}

\* ------------------------------------------------------ Enrichment Loop
\* len(data["photos"]) is reached and raises.
LenRaises(data) ==
    ~data.video /\ data.photos # NULL /\ data.photos[1] = UNSIZED

\* Format detection from the JSON metadata.
DetectFormat_photos_first(data) ==
    IF data.photos # NULL /\ data.photos[1] > 0 THEN "Photo"
    ELSE IF data.video THEN "Video"
    ELSE "Text"

DetectFormat(data) ==
    IF data.video THEN "Video"
    ELSE IF data.photos # NULL /\ data.photos[1] > 0 THEN "Photo"
    ELSE "Text"

fetch_tweet_details_any_error_missing(tweet_url, resp) ==
    IF tweet_url = NULL THEN NULL
    ELSE IF ~IsDigit(ExtractTweetId(tweet_url[1])) THEN NULL
    ELSE IF resp.raised THEN NULL
    ELSE IF resp.status_code >= 400 THEN <<"MISSING", "Unknown">>
    ELSE IF resp.data = NULL THEN NULL
    ELSE IF LenRaises(resp.data[1]) THEN NULL
    ELSE LET data == resp.data[1]
             text == IF data.text = NULL THEN "" ELSE data.text[1]
         IN  <<text, DetectFormat(data)>>

\* fetch_tweet_details: NULL (None) or <<text, format>>.
fetch_tweet_details(tweet_url, resp) ==
    IF tweet_url = NULL THEN NULL                      \* split raises: except
    ELSE IF ~IsDigit(ExtractTweetId(tweet_url[1])) THEN NULL
    ELSE IF resp.raised THEN NULL                      \* requests.get raises
    ELSE IF resp.status_code = 404 THEN <<"MISSING", "Unknown">>
    ELSE IF resp.status_code >= 400 THEN NULL          \* raise_for_status
    ELSE IF resp.data = NULL THEN NULL                 \* response.json() raises
    ELSE IF LenRaises(resp.data[1]) THEN NULL          \* len() raises
    ELSE LET data == resp.data[1]
             text == IF data.text = NULL THEN "" ELSE data.text[1]
         IN  <<text, DetectFormat(data)>>

\* The WHERE clause of get_null_rows.
Selectable_format_only(row) ==
    row.tweet_format = NULL \/ row.tweet_format # Val("Missing")

Selectable_without_is_null(row) ==
    /\ row.tweet_text = NULL
    /\ row.tweet_format # NULL
    /\ row.tweet_format # Val("Missing")

Selectable(row) ==
    /\ row.tweet_text = NULL
    /\ (row.tweet_format = NULL \/ row.tweet_format # Val("Missing"))

SelectableIds(table) == {i \in DOMAIN table : Selectable(table[i])}

\* get_null_rows: every result the SELECT ... LIMIT may return. Without an
\* ORDER BY the store returns any `limit` of the matching rows, in any order.
get_null_rows(table, limit) ==
    LET ids == SelectableIds(table)
        n   == Min(limit, Cardinality(ids))
    IN  {[k \in 1 .. n |-> <<f[k], table[f[k]].tweet_url>>] :
            f \in {g \in [1 .. n -> ids] : \A a, b \in 1 .. n : a # b => g[a] # g[b]}}

\* update_row: the UPDATE it executes, as the columns it sets on row_id.
update_row_text_from_argument(row_id, tweet_text, tweet_vector, tweet_format) ==
    IF tweet_vector = NULL
    THEN [id |-> row_id,
          cols |-> ("tweet_text" :> Val(tweet_text)) @@
                   ("tweet_format" :> Val("Missing"))]
    ELSE [id |-> row_id,
          cols |-> ("tweet_text" :> Val(tweet_text)) @@
                   ("tweet_vector" :> tweet_vector) @@
                   ("tweet_format" :> Val(tweet_format))]

update_row(row_id, tweet_text, tweet_vector, tweet_format) ==
    IF tweet_vector = NULL
    THEN [id |-> row_id,
          cols |-> ("tweet_text" :> Val("MISSING_OR_DELETED")) @@
                   ("tweet_format" :> Val("Missing"))]
    ELSE [id |-> row_id,
          cols |-> ("tweet_text" :> Val(tweet_text)) @@
                   ("tweet_vector" :> tweet_vector) @@
                   ("tweet_format" :> Val(tweet_format))]

\* The effect of a committed UPDATE ... WHERE id = u.id on the table.
ApplyUpdate(table, u) ==
    [i \in DOMAIN table |->
        IF i = u.id
        THEN [c \in DOMAIN table[i] |->
                IF c \in DOMAIN u.cols THEN u.cols[c] ELSE table[i][c]]
        ELSE table[i]]

HandleResult_skip_missing(row_id, res) ==
    IF res = NULL \/ res[1] = "MISSING" THEN NULL
    ELSE Val(update_row(row_id, res[1], Val(Embed(res[1])), res[2]))

\* The body of main's for loop up to the commit: NULL when nothing is
\* written ("API Error (Skipping)"), else Val(the UPDATE executed).
HandleResult(row_id, res) ==
    IF res = NULL THEN NULL
    ELSE LET tweet_text   == res[1]
             tweet_format == res[2]
         IN  IF tweet_text = "MISSING"
             THEN Val(update_row(row_id, "MISSING", NULL, "Missing"))
             ELSE Val(update_row(row_id, tweet_text, Val(Embed(tweet_text)), tweet_format))

\* What follows a record: the next one, or the next get_null_rows.
AfterRow(rest) == IF rest = <<>> THEN "fetch" ELSE "row"

\* rows = get_null_rows(cursor); if not rows: break
GetNullRows(p) ==
    /\ pc[p] = "fetch"
    /\ IF SelectableIds(db) = {}
       THEN /\ pc' = [pc EXCEPT ![p] = "done"]
            /\ UNCHANGED rows
       ELSE /\ \E r \in get_null_rows(db, ENRICH_BATCH_SIZE) :
                    rows' = [rows EXCEPT ![p] = r]
            /\ pc' = [pc EXCEPT ![p] = "row"]
    /\ UNCHANGED <<upstreamVars, response, helpful_notes, db, loaderVars, result, etxn, ecrashes>>

\* One record: fetch_tweet_details, then update_row or the skip.
HandleRow(p, resp) ==
    /\ pc[p] = "row"
    /\ UNCHANGED <<upstreamVars, response, helpful_notes, db, loaderVars, ecrashes>>
    /\ LET row_id    == rows[p][1][1]
           tweet_url == rows[p][1][2]
           res       == fetch_tweet_details(tweet_url, resp)
           u         == HandleResult(row_id, res)
       IN  /\ result' = [result EXCEPT ![p] = res]
           /\ IF u = NULL
              THEN /\ rows' = [rows EXCEPT ![p] = Tail(rows[p])]
                   /\ pc' = [pc EXCEPT ![p] = AfterRow(Tail(rows[p]))]
                   /\ UNCHANGED etxn
              ELSE /\ etxn' = [etxn EXCEPT ![p] = u]
                   /\ pc' = [pc EXCEPT ![p] = "commit"]
                   /\ UNCHANGED rows

\* conn.commit() after update_row.
CommitRow(p) ==
    /\ pc[p] = "commit"
    /\ db' = ApplyUpdate(db, etxn[p][1])
    /\ etxn' = [etxn EXCEPT ![p] = NULL]
    /\ rows' = [rows EXCEPT ![p] = Tail(rows[p])]
    /\ pc' = [pc EXCEPT ![p] = AfterRow(Tail(rows[p]))]
    /\ UNCHANGED <<upstreamVars, response, helpful_notes, loaderVars, result, ecrashes>>

\* The process dies: an UPDATE not yet committed is rolled back.
EnrichCrash(p) ==
    /\ pc[p] \in {"fetch", "row", "commit"}
    /\ ecrashes[p] < MaxCrashes
    /\ ecrashes' = [ecrashes EXCEPT ![p] = ecrashes[p] + 1]
    /\ pc' = [pc EXCEPT ![p] = "crashed"]
    /\ rows' = [rows EXCEPT ![p] = <<>>]
    /\ result' = [result EXCEPT ![p] = NULL]
    /\ etxn' = [etxn EXCEPT ![p] = NULL]
    /\ UNCHANGED <<upstreamVars, response, helpful_notes, db, loaderVars>>

\* The script is started again, after a crash or after it finished.
EnrichRestart(p) ==
    /\ pc[p] \in {"crashed", "done"}
    /\ pc' = [pc EXCEPT ![p] = "fetch"]
    /\ UNCHANGED <<upstreamVars, response, helpful_notes, db, loaderVars, rows, result, etxn, ecrashes>>

\* ------------------------------------------------------- specifications
\* The Batch Loader and one Enrichment Loop.
Next ==
    \/ LoaderStart
    \/ LoaderInsertBatch
    \/ LoaderCommit
    \/ LoaderCrash
    \/ GetNullRows(1)
    \/ \E resp \in Responses : HandleRow(1, resp)
    \/ CommitRow(1)
    \/ EnrichCrash(1)
    \/ EnrichRestart(1)

Spec == Init /\ [][Next]_vars

\* The inputs whose URLs all end in digits.
InitResolve ==
    /\ Init
    /\ \A i \in DOMAIN helpful_notes : helpful_notes[i].tweetId >= 0

\* The Batch Loader and two Enrichment Loop processes on the same store.
\* Each UPDATE takes effect at its commit; the two loops' fetches, API calls
\* and commits interleave freely. Every URL ends in digits (else no loop ever
\* exits), and the content API gives one answer of each kind: not found, a
\* timeout, and two successes that differ in format.
DualResponses ==
    {NotFoundResponse,
     [raised |-> TRUE, status_code |-> 0, data |-> NULL],
     [raised |-> FALSE, status_code |-> 200,
      data |-> Val([text |-> Val("claim"), video |-> FALSE, photos |-> NULL])],
     [raised |-> FALSE, status_code |-> 200,
      data |-> Val([text |-> Val("claim"), video |-> TRUE, photos |-> NULL])]}

NextDual ==
    \/ LoaderStart
    \/ LoaderInsertBatch
    \/ LoaderCommit
    \/ \E p \in Procs :
          \/ GetNullRows(p)
          \/ \E resp \in DualResponses : HandleRow(p, resp)
          \/ CommitRow(p)

SpecDual == InitResolve /\ [][NextDual]_vars

\* One Enrichment Loop run in a world where every record resolves when it is
\* processed: every URL ends in digits and the content API answers with
\* success or not-found. The loop is a running process (weak fairness on its
\* steps); the Batch Loader may load before or while it runs.
EnrichStepResolve ==
    \/ GetNullRows(1)
    \/ \E resp \in ResolvingResponses : HandleRow(1, resp)
    \/ CommitRow(1)

NextResolve ==
    \/ LoaderStart
    \/ LoaderInsertBatch
    \/ LoaderCommit
    \/ EnrichStepResolve

SpecResolve == InitResolve /\ [][NextResolve]_vars /\ WF_vars(EnrichStepResolve)

\* --------------------------------------------------- Source Data Fetcher
\* DATASETS, in the order its items() are walked.
DATASETS == <<"notes-00000", "noteStatusHistory-00000">>

\* os.path.join(DATA_DIR, f"{year}-{month}-{day}_{tsv_filename}")
LocalTsvPath(day, base_name) == <<day, base_name>>

\* What strategy 1 can come to: download_file returns False; the archive is
\* downloaded, extracted and renamed; the archive holds no .tsv; opening,
\* extracting or renaming raises.
ZipOutcomes == {"failed", "extracted", "no_tsv", "raised"}

\* The top of the for loop over days, and the return None after it.
DayStart_keeps_paths ==
    /\ dpc = "day"
    /\ IF days_ago < DAYS_TRIED
       THEN /\ date' = now - days_ago
            /\ success' = TRUE
            /\ ds' = 1
            /\ dpc' = "dataset"
            /\ UNCHANGED <<paths, fpc, local_paths>>
       ELSE /\ paths' = NULL
            /\ fpc' = "exit"
            /\ dpc' = "returned"
            /\ UNCHANGED <<date, success, local_paths, ds>>
    /\ tried' = <<>>
    /\ UNCHANGED <<now, fs, days_ago, notes_df, status_df, helpful_notes, db,
                   loaderVars, enrichVars,
                   response>>

DayStart ==
    /\ dpc = "day"
    /\ IF days_ago < DAYS_TRIED
       THEN /\ date' = now - days_ago
            /\ success' = TRUE
            /\ local_paths' = <<>>
            /\ ds' = 1
            /\ dpc' = "dataset"
            /\ UNCHANGED <<paths, fpc>>
       ELSE /\ paths' = NULL
            /\ fpc' = "exit"
            /\ dpc' = "returned"
            /\ UNCHANGED <<date, success, local_paths, ds>>
    /\ tried' = <<>>
    /\ UNCHANGED <<now, fs, days_ago, notes_df, status_df, helpful_notes, db,
                   loaderVars, enrichVars,
                   response>>

\* The top of the for loop over DATASETS: the path is collected; a file that
\* exists is skipped.
DatasetStart ==
    /\ dpc = "dataset"
    /\ IF ds > Len(DATASETS)
       THEN /\ dpc' = "dayend"
            /\ UNCHANGED <<local_paths, ds>>
       ELSE LET local_tsv_path == LocalTsvPath(date, DATASETS[ds])
            IN  /\ local_paths' = Append(local_paths, local_tsv_path)
                /\ IF local_tsv_path \in fs
                   THEN /\ ds' = ds + 1
                        /\ dpc' = "dataset"
                   ELSE /\ dpc' = "zip"
                        /\ UNCHANGED ds
    /\ tried' = <<>>
    /\ UNCHANGED <<now, fs, days_ago, date, success, paths, notes_df, status_df,
                   fpc, helpful_notes, db, loaderVars, enrichVars,
                   response>>

\* Strategy 1: the archive at the dated path.
TryZip(outcome) ==
    /\ dpc = "zip"
    /\ tried' = Append(tried, "zip")
    /\ CASE outcome = "failed" ->
              /\ dpc' = "tsv"
              /\ UNCHANGED <<fs, success, ds>>
         [] outcome = "extracted" ->
              /\ fs' = fs \cup {LocalTsvPath(date, DATASETS[ds])}
              /\ ds' = ds + 1
              /\ dpc' = "dataset"
              /\ UNCHANGED success
         [] OTHER ->
              /\ success' = FALSE
              /\ dpc' = "dayend"
              /\ UNCHANGED <<fs, ds>>
    /\ UNCHANGED <<now, days_ago, date, local_paths, paths, notes_df, status_df,
                   fpc, helpful_notes, db, loaderVars, enrichVars,
                   response>>

\* Strategy 2: the TSV at the dated path.
TryTsv_no_legacy(ok) ==
    /\ dpc = "tsv"
    /\ tried' = Append(tried, "tsv")
    /\ IF ok
       THEN /\ fs' = fs \cup {LocalTsvPath(date, DATASETS[ds])}
            /\ ds' = ds + 1
            /\ dpc' = "dataset"
            /\ UNCHANGED success
       ELSE /\ success' = FALSE
            /\ dpc' = "dayend"
            /\ UNCHANGED <<fs, ds>>
    /\ UNCHANGED <<now, days_ago, date, local_paths, paths, notes_df, status_df,
                   fpc, helpful_notes, db, loaderVars, enrichVars,
                   response>>

TryTsv(ok) ==
    /\ dpc = "tsv"
    /\ tried' = Append(tried, "tsv")
    /\ IF ok
       THEN /\ fs' = fs \cup {LocalTsvPath(date, DATASETS[ds])}
            /\ ds' = ds + 1
            /\ dpc' = "dataset"
       ELSE /\ dpc' = "legacy"
            /\ UNCHANGED <<fs, ds>>
    /\ UNCHANGED <<now, days_ago, date, success, local_paths, paths, notes_df,
                   status_df, fpc, helpful_notes, db, loaderVars, enrichVars,
                   response>>

\* Strategy 3: the TSV at the legacy path.
TryLegacy(ok) ==
    /\ dpc = "legacy"
    /\ tried' = Append(tried, "legacy")
    /\ IF ok
       THEN /\ fs' = fs \cup {LocalTsvPath(date, DATASETS[ds])}
            /\ ds' = ds + 1
            /\ dpc' = "dataset"
            /\ UNCHANGED success
       ELSE /\ success' = FALSE
            /\ dpc' = "dayend"
            /\ UNCHANGED <<fs, ds>>
    /\ UNCHANGED <<now, days_ago, date, local_paths, paths, notes_df, status_df,
                   fpc, helpful_notes, db, loaderVars, enrichVars,
                   response>>

\* After the for loop over DATASETS (left by break or run to its end):
\* return tuple(local_paths), on which main goes on to load the files; or
\* the next day.
DayEnd ==
    /\ dpc = "dayend"
    /\ IF success
       THEN /\ paths' = Val(local_paths)
            /\ fpc' = "load"
            /\ dpc' = "returned"
            /\ UNCHANGED days_ago
       ELSE /\ days_ago' = days_ago + 1
            /\ dpc' = "day"
            /\ UNCHANGED <<paths, fpc>>
    /\ UNCHANGED <<now, fs, date, success, local_paths, ds, tried, notes_df,
                   status_df, helpful_notes, db, loaderVars, enrichVars,
                   response>>

\* Midnight passes while download_latest_data runs.
Tick ==
    /\ dpc \notin {"idle", "returned"}
    /\ now < MaxTicks
    /\ now' = now + 1
    /\ UNCHANGED <<fs, dpc, days_ago, date, success, local_paths, ds, tried, paths,
                   notes_df, status_df, fpc, helpful_notes, db, loaderVars, enrichVars,
                   response>>

\* What the archive serves as the notes file and the status-history file.
SampleNotesFiles ==
    {<<[noteId |-> 1, tweetId |-> 7,  summary |-> Val("note")],
       [noteId |-> 2, tweetId |-> 7,  summary |-> NULL]>>,
     <<[noteId |-> 3, tweetId |-> 42, summary |-> NULL]>>}

SampleStatusFile ==
    <<[noteId |-> 1, currentStatus |-> "CURRENTLY_RATED_HELPFUL"],
      [noteId |-> 2, currentStatus |-> "CURRENTLY_RATED_HELPFUL"]>>

\* main of ingest_notes.py calls download_latest_data; data/ holds any of
\* the files of the last days from earlier runs.
InitFetch ==
    /\ now = 0
    /\ fs \in SUBSET {LocalTsvPath(0 - d, DATASETS[k]) :
                        d \in 0 .. (DAYS_TRIED - 1), k \in DOMAIN DATASETS}
    /\ dpc = "day"
    /\ days_ago = 0
    /\ date = 0
    /\ success = TRUE
    /\ local_paths = <<>>
    /\ ds = 1
    /\ tried = <<>>
    /\ paths = NULL
    /\ notes_df \in SampleNotesFiles
    /\ status_df = SampleStatusFile
    /\ fpc = "download"
    /\ helpful_notes = <<>>
    /\ db = <<>>
    /\ lpc = "idle"
    /\ batch_start = 0
    /\ ltxn = <<>>
    /\ runs = 0
    /\ lcrashes = 0
    /\ pc = [p \in Procs |-> "fetch"]
    /\ rows = [p \in Procs |-> <<>>]
    /\ result = [p \in Procs |-> NULL]
    /\ etxn = [p \in Procs |-> NULL]
    /\ ecrashes = [p \in Procs |-> 0]
    /\ response = NULL

\* -------------------------------------------------------- Filter & Dedup
\* status_df[status_df["currentStatus"] == "CURRENTLY_RATED_HELPFUL"]
HelpfulStatus(status) ==
    SelectSeq(status, LAMBDA r : r.currentStatus = "CURRENTLY_RATED_HELPFUL")

\* How many rows of the right table carry this join key.
MatchCount(noteId, right) ==
    Cardinality({j \in DOMAIN right : right[j].noteId = noteId})

\* notes_df.merge(helpful_status[["noteId"]], on="noteId", how="inner") on
\* the first n rows of notes: the left rows in their order, each once per
\* right row with its noteId; the right table adds no column.
RECURSIVE Merge(_, _, _)
Merge(notes, right, n) ==
    IF n = 0 THEN <<>>
    ELSE Merge(notes, right, n - 1) \o
         [k \in 1 .. MatchCount(notes[n].noteId, right) |-> notes[n]]

\* load_and_filter_notes
load_and_filter_notes(notes, status) ==
    Merge(notes, HelpfulStatus(status), Len(notes))

\* df.drop_duplicates(subset=['tweetId'], keep=...) on the first n rows.
RECURSIVE drop_duplicates_keep_last(_, _)
drop_duplicates_keep_last(df, n) ==
    IF n = 0 THEN <<>>
    ELSE IF \E j \in (n + 1) .. Len(df) : df[j].tweetId = df[n].tweetId
         THEN drop_duplicates_keep_last(df, n - 1)
         ELSE Append(drop_duplicates_keep_last(df, n - 1), df[n])

RECURSIVE drop_duplicates(_, _)
drop_duplicates(df, n) ==
    IF n = 0 THEN <<>>
    ELSE IF \E j \in 1 .. (n - 1) : df[j].tweetId = df[n].tweetId
         THEN drop_duplicates(df, n - 1)
         ELSE Append(drop_duplicates(df, n - 1), df[n])

\* The rows the notes file may hold: notes of two posts, by three authors;
\* no two rows are alike in both noteId and summary unless they are one row.
NotesFileRows ==
    {[noteId |-> 1, tweetId |-> 7,  summary |-> Val("note")],
     [noteId |-> 1, tweetId |-> 42, summary |-> Val("other")],
     [noteId |-> 2, tweetId |-> 7,  summary |-> NULL],
     [noteId |-> 2, tweetId |-> 42, summary |-> Val("note")],
     [noteId |-> 3, tweetId |-> 7,  summary |-> Val("third")],
     [noteId |-> 3, tweetId |-> 42, summary |-> NULL]}

\* The rows the status-history file may hold; note 3 has no status row.
StatusFileRows ==
    {[noteId |-> n, currentStatus |-> s] :
        n \in {1, 2}, s \in {"CURRENTLY_RATED_HELPFUL", "NEEDS_MORE_RATINGS"}}

\* main, line 221: helpful_notes = load_and_filter_notes(...); an empty
\* result returns before the deduplication.
LoadAndFilter ==
    /\ fpc = "load"
    /\ helpful_notes' = load_and_filter_notes(notes_df, status_df)
    /\ fpc' = IF helpful_notes' = <<>> THEN "exit" ELSE "dedup"
    /\ UNCHANGED <<fetchVars, notes_df, status_df, db, loaderVars, enrichVars,
                   response>>

\* main, line 230: helpful_notes.drop_duplicates(subset=['tweetId'], keep='first')
DropDuplicates ==
    /\ fpc = "dedup"
    /\ helpful_notes' = drop_duplicates(helpful_notes, Len(helpful_notes))
    /\ fpc' = "ready"
    /\ UNCHANGED <<fetchVars, notes_df, status_df, db, loaderVars, enrichVars,
                   response>>

\* main of ingest_notes.py from the two files read to the deduplicated table.
InitFilter ==
    /\ FetcherIdle
    /\ notes_df \in UNION {[1 .. n -> NotesFileRows] : n \in 0 .. MaxNotesRows}
    /\ status_df \in UNION {[1 .. n -> StatusFileRows] : n \in 0 .. MaxStatusRows}
    /\ fpc = "load"
    /\ helpful_notes = <<>>
    /\ db = <<>>
    /\ lpc = "idle"
    /\ batch_start = 0
    /\ ltxn = <<>>
    /\ runs = 0
    /\ lcrashes = 0
    /\ pc = [p \in Procs |-> "fetch"]
    /\ rows = [p \in Procs |-> <<>>]
    /\ result = [p \in Procs |-> NULL]
    /\ etxn = [p \in Procs |-> NULL]
    /\ ecrashes = [p \in Procs |-> 0]
    /\ response = NULL

NextFilter ==
    \/ LoadAndFilter
    \/ DropDuplicates

SpecFilter == InitFilter /\ [][NextFilter]_vars

\* main of ingest_notes.py from its start to the deduplicated table.
NextFetch ==
    \/ DayStart
    \/ DatasetStart
    \/ \E outcome \in ZipOutcomes : TryZip(outcome)
    \/ \E ok \in BOOLEAN : TryTsv(ok)
    \/ \E ok \in BOOLEAN : TryLegacy(ok)
    \/ DayEnd
    \/ Tick
    \/ LoadAndFilter
    \/ DropDuplicates

SpecFetch == InitFetch /\ [][NextFetch]_vars

\* One Enrichment Loop on a store where some records fail on every attempt:
\* the URL of tweetId -1 yields no numeric id, and every request for a post
\* of FailingPosts fails; every other post is answered with success or
\* not-found. With the notes of NoteRows there are ENRICH_BATCH_SIZE records
\* of the first kind and one of the second. The loop is a running process
\* (weak fairness on its steps).
FailingPosts == {7}

PostAnswers(tweet_url) ==
    IF tweet_url \in {Val(BuildUrl(t)) : t \in FailingPosts}
    THEN ErrorResponses
    ELSE ResolvingResponses

EnrichStepStarve ==
    \/ GetNullRows(1)
    \/ (pc[1] = "row" /\ \E resp \in PostAnswers(rows[1][1][2]) : HandleRow(1, resp))
    \/ CommitRow(1)

NextStarve ==
    \/ LoaderStart
    \/ LoaderInsertBatch
    \/ LoaderCommit
    \/ EnrichStepStarve

SpecStarve == Init /\ [][NextStarve]_vars /\ WF_vars(EnrichStepStarve)

\* ---------------------------------------------------------- Query Service
\* Distances and similarities are in hundredths: UNIT is 1.0.
UNIT == 100
\* SIMILARITY_THRESHOLD = 0.4
SIMILARITY_THRESHOLD == 40
\* LIMIT 5
SEARCH_LIMIT == 5

\* The query strings, and the cosine distances a stored vector may have from
\* the query's embedding.
Queries == {"claim", "rumour"}
DistValues == {0, SIMILARITY_THRESHOLD - 1, SIMILARITY_THRESHOLD}

\* The vectors stored in tweet_vector.
StoredVectors(table) ==
    {table[i].tweet_vector[1] : i \in {k \in DOMAIN table : table[k].tweet_vector # NULL}}

\* The distances tweet_vector <=> query_embedding can take: a function of
\* the stored vector, 0 for the vector of the query's own text.
Distances(table, q) ==
    {d \in [StoredVectors(table) -> DistValues] :
        \A v \in StoredVectors(table) : v = Embed(q) => d[v] = 0}

\* One element of the results list.
Hit(row, distance) ==
    [tweet_id   |-> row.tweet_id,
     tweet_url  |-> row.tweet_url,
     tweet_text |-> IF row.tweet_text # NULL /\ row.tweet_text # Val("")
                       /\ row.tweet_text # Val("MISSING_OR_DELETED")
                    THEN row.tweet_text ELSE NULL,
     note_text  |-> row.note_text,
     distance   |-> distance,
     similarity |-> UNIT - distance,
     is_match   |-> distance < SIMILARITY_THRESHOLD]

\* The rows of the WHERE clause of search.
Searchable(table) == {i \in DOMAIN table : table[i].tweet_vector # NULL}

\* search: every list the SELECT ... ORDER BY distance LIMIT 5 may give
\* (rows at equal distance come in any order), as the hits built from it.
\* A row without a vector has NULL for a distance, which sorts last.
SearchResults(table, d) ==
    LET ids     == Searchable(table)
        n       == Min(SEARCH_LIMIT, Cardinality(ids))
        Dist(i) == IF table[i].tweet_vector = NULL THEN 2 * UNIT + 1
                   ELSE d[table[i].tweet_vector[1]]
    IN  {[k \in 1 .. n |-> Hit(table[f[k]], Dist(f[k]))] :
            f \in {g \in [1 .. n -> ids] :
                      /\ \A a, b \in 1 .. n : a # b => g[a] # g[b]
                      /\ \A a, b \in 1 .. n : a < b => Dist(g[a]) <= Dist(g[b])
                      /\ \A i \in ids :
                            (\A a \in 1 .. n : g[a] # i) =>
                                \A a \in 1 .. n : Dist(g[a]) <= Dist(i)}}

\* GET /api/search?q=...: reads the committed table.
Search(q) ==
    /\ response = NULL
    /\ \E d \in Distances(db, q) :
          \E r \in SearchResults(db, d) :
              response' = Val([query |-> q, results |-> r])
    /\ UNCHANGED <<upstreamVars, helpful_notes, db, loaderVars, enrichVars>>

\* The Batch Loader, two Enrichment Loop processes and one search request
\* on the same store.
NextSearch ==
    \/ NextDual
    \/ \E q \in Queries : Search(q)

SpecSearch == InitResolve /\ [][NextSearch]_vars

\* ================================================================ claims
\* The ids of the rows a loop still holds from its last get_null_rows.
HeldIds(p) == {rows[p][k][1] : k \in DOMAIN rows[p]}

Missing(row) == row.tweet_format = Val("Missing")

\* C1: every record has a tweet_vector exactly when it has a tweet_text that
\* is not the sentinel 'MISSING_OR_DELETED' (Batch Loader and one loop).
C1_VectorIffText ==
    \A i \in DOMAIN db :
        (db[i].tweet_vector # NULL) <=>
            (db[i].tweet_text # NULL /\ db[i].tweet_text # Val("MISSING_OR_DELETED"))

\* C2: once a record's tweet_format is 'Missing' it stays so, it is outside
\* the rows get_null_rows can return, and no result of get_null_rows a loop
\* holds contains it, whatever the Batch Loader re-ingests.
C2_TerminalExclusion ==
    [][\A i \in DOMAIN db :
          Missing(db[i]) =>
              /\ Missing(db'[i])
              /\ i \notin SelectableIds(db')
              /\ \A r \in get_null_rows(db', ENRICH_BATCH_SIZE) :
                    \A k \in DOMAIN r : r[k][1] # i
              /\ i \notin HeldIds(1)']_vars

\* C2's case: a record is marked Missing, the notes were ingested twice, and
\* the loop holds a full result of a get_null_rows made after the marking.
C2_Witness ==
    /\ \E i \in DOMAIN db : Missing(db[i])
    /\ runs = 2 /\ lpc = "done"
    /\ pc[1] = "row"
    /\ Len(rows[1]) = ENRICH_BATCH_SIZE

\* C3: when every record resolves on being processed, the loop reaches its
\* 'no more rows' exit.
C3_Terminates == <>(pc[1] = "done")

\* C3's case: the loop has exited after resolving two records, one to
\* enriched and one to permanently missing.
C3_Witness ==
    /\ pc[1] = "done"
    /\ \E i, j \in DOMAIN db :
          /\ Missing(db[i])
          /\ db[j].tweet_vector # NULL

\* The loop is at a record whose URL ends in digits, so that processing it
\* calls the content API.
AtApiCall(p) ==
    /\ pc[p] = "row"
    /\ rows[p][1][2] # NULL
    /\ IsDigit(ExtractTweetId(rows[p][1][2][1]))

\* The enrichment columns of a row.
EnrichCols(row) == <<row.tweet_text, row.tweet_vector, row.tweet_format>>

\* C4: a record for which the content API answers 404 gets an UPDATE that
\* sets tweet_text to 'MISSING_OR_DELETED' and tweet_format to 'Missing' and
\* no other column; the commit that follows stores exactly that, leaves the
\* row's tweet_vector as it was, and leaves no write open when the loop goes
\* on to the next record.
C4_NotFoundMarksMissing ==
    [][/\ (AtApiCall(1) /\ HandleRow(1, NotFoundResponse)) =>
              /\ pc'[1] = "commit"
              /\ db' = db
              /\ etxn'[1] = Val([id   |-> rows[1][1][1],
                                 cols |-> ("tweet_text" :> Val("MISSING_OR_DELETED")) @@
                                          ("tweet_format" :> Val("Missing"))])
       /\ (pc[1] = "commit" /\ result[1] = <<"MISSING", "Unknown">> /\ CommitRow(1)) =>
              LET i == rows[1][1][1]
              IN  /\ db'[i].tweet_text = Val("MISSING_OR_DELETED")
                  /\ db'[i].tweet_format = Val("Missing")
                  /\ db'[i].tweet_vector = db[i].tweet_vector
                  /\ \A j \in DOMAIN db : j # i => db'[j] = db[j]
                  /\ etxn'[1] = NULL
                  /\ pc'[1] \in {"row", "fetch"}
       /\ (pc'[1] \in {"row", "fetch"} => etxn'[1] = NULL)
      ]_vars

\* C4's case: the last answer was a 404, its record is stored as permanently
\* missing, and the loop has moved on.
C4_Witness ==
    /\ result[1] = <<"MISSING", "Unknown">>
    /\ pc[1] \in {"row", "fetch"}
    /\ \E i \in DOMAIN db :
          /\ db[i].tweet_text = Val("MISSING_OR_DELETED")
          /\ db[i].tweet_format = Val("Missing")
          /\ db[i].tweet_vector = NULL

\* The answers with which processing a record of this URL fails other than
\* by not-found: every answer when the URL yields no numeric id (the API is
\* not called), else a raised request, an error status other than 404, or a
\* body that is not JSON.
FailingResponses(tweet_url) ==
    IF tweet_url = NULL \/ ~IsDigit(ExtractTweetId(tweet_url[1]))
    THEN Responses
    ELSE ErrorResponses

\* C5: processing a record that fails other than by not-found writes
\* nothing: the table and the open transaction are unchanged, the record is
\* still selectable, and the loop goes on with what follows it.
C5_FailureWritesNothing ==
    [][pc[1] = "row" =>
          \A resp \in FailingResponses(rows[1][1][2]) :
              HandleRow(1, resp) =>
                  /\ db' = db
                  /\ etxn' = etxn /\ etxn[1] = NULL
                  /\ result'[1] = NULL
                  /\ rows[1][1][1] \in SelectableIds(db')
                  /\ rows'[1] = Tail(rows[1])
                  /\ pc'[1] = IF Tail(rows[1]) = <<>> THEN "fetch" ELSE "row"
      ]_vars

\* C5's case: the loop has just skipped a record (result is None) after an
\* earlier fetch, and that record is still to be enriched.
C5_Witness ==
    /\ result[1] = NULL
    /\ pc[1] = "row"
    /\ Len(rows[1]) < ENRICH_BATCH_SIZE
    /\ \E i \in SelectableIds(db) :
          /\ i \notin HeldIds(1)
          /\ IsDigit(ExtractTweetId(db[i].tweet_url[1]))

\* C6: a record for which the content API answers with success gets an
\* UPDATE that sets tweet_text to the returned text, tweet_vector to its
\* embedding and tweet_format to the detected format, whatever the text.
C6_SuccessEnriches ==
    [][\A resp \in OkResponses :
          (AtApiCall(1) /\ HandleRow(1, resp)) =>
              LET data == resp.data[1]
                  text == IF data.text = NULL THEN "" ELSE data.text[1]
              IN  /\ pc'[1] = "commit"
                  /\ etxn'[1] = Val([id   |-> rows[1][1][1],
                                     cols |-> ("tweet_text" :> Val(text)) @@
                                              ("tweet_vector" :> Val(Embed(text))) @@
                                              ("tweet_format" :> Val(DetectFormat(data)))])
      ]_vars

\* The states of a record's enrichment columns that one loop can produce:
\* never enriched, permanently missing, or enriched from some API answer.
SingleLoopStates ==
    {<<NULL, NULL, NULL>>}
    \cup {<<Val("MISSING_OR_DELETED"), NULL, Val("Missing")>>}
    \cup {LET data == d[1]
              text == IF data.text = NULL THEN "" ELSE data.text[1]
          IN  <<Val(text), Val(Embed(text)), Val(DetectFormat(data))>> :
          d \in {x \in ApiData : x[1].text # Val("MISSING")}}

\* C7: with two loops on the same store, once both have exited every record
\* is in a state a single loop could have produced.
C7_DualLoopsHarmless ==
    (\A p \in Procs : pc[p] = "done") =>
        \A i \in DOMAIN db : EnrichCols(db[i]) \in SingleLoopStates

\* C8: a record committed as enriched or permanently missing keeps its
\* enrichment columns over every later step, a crash and a restart of the
\* loop included, and the loop neither holds it in a later get_null_rows
\* result nor opens a write on it.
C8_CrashLosesNothing ==
    [][\A i \in DOMAIN db :
          db[i].tweet_text # NULL =>
              /\ EnrichCols(db'[i]) = EnrichCols(db[i])
              /\ i \notin HeldIds(1)'
              /\ (etxn'[1] # NULL => etxn'[1][1].id # i)
      ]_vars

\* C8's case: the loop was killed and started again, has fetched its rows
\* anew and holds a full result, while the table has a completed record.
C8_Witness ==
    /\ ecrashes[1] >= 1
    /\ pc[1] = "row"
    /\ Len(rows[1]) = ENRICH_BATCH_SIZE
    /\ \E i \in DOMAIN db : db[i].tweet_text # NULL

\* What the Batch Loader writes of each row, in id order.
NoteView(table) ==
    [i \in DOMAIN table |->
        <<table[i].tweet_id, table[i].tweet_url, table[i].note_text, table[i].note_vector>>]

\* C9: whenever a Batch Loader run has completed, after however many runs
\* on the same input, the table has the rows of one run on an empty table:
\* as many, and with the same tweet_url, note_text and note_vector.
C9_LoaderIdempotent ==
    lpc = "done" =>
        NoteView(db) = NoteView(LoadChunks(<<>>, helpful_notes, TotalBatches(helpful_notes)))

\* C9's case: two complete runs, neither interrupted, on a three-note input.
C9_Witness ==
    /\ lpc = "done"
    /\ runs = 2
    /\ lcrashes = 0
    /\ Len(helpful_notes) = 3
    /\ Len(db) = 3

\* C10: at every point of a Batch Loader run, a kill included, the table
\* holds the rows of the first k chunks for some k, k being at least the
\* number of chunks the present run has committed; and a run that completes,
\* after a kill or not, leaves the rows of all chunks.
C10_WholeChunksOnly ==
    \E k \in 0 .. TotalBatches(helpful_notes) :
        /\ NoteView(db) = NoteView(LoadChunks(<<>>, helpful_notes, k))
        /\ (lpc \in {"batch", "commit", "crashed"} => k * INGEST_BATCH_SIZE >= batch_start)
        /\ (lpc = "done" => k = TotalBatches(helpful_notes))

\* C10's case: the first run was killed in its second chunk; the table holds
\* the first chunk and nothing of the second.
C10_Witness ==
    /\ lpc = "crashed"
    /\ runs = 1
    /\ batch_start = INGEST_BATCH_SIZE
    /\ Len(helpful_notes) > INGEST_BATCH_SIZE
    /\ Len(db) = INGEST_BATCH_SIZE

\* A step of the Batch Loader.
LoaderStep == LoaderStart \/ LoaderInsertBatch \/ LoaderCommit \/ LoaderCrash

\* The columns the upsert of insert_batch may set on a row that exists.
UpsertCols == {"tweet_url", "note_text", "note_vector"}

\* C11: a step of the Batch Loader keeps every existing row in place with
\* every column other than tweet_url, note_text and note_vector as it was,
\* and creates new rows with tweet_text, tweet_vector and tweet_format NULL;
\* a step that changes one of those three columns of a row is the commit of
\* the Enrichment Loop's UPDATE.
C11_LoaderKeepsEnrichment ==
    [][/\ LoaderStep =>
              /\ Len(db') >= Len(db)
              /\ \A i \in DOMAIN db :
                    \A c \in DOMAIN db[i] \ UpsertCols : db'[i][c] = db[i][c]
              /\ \A i \in DOMAIN db' \ DOMAIN db :
                    EnrichCols(db'[i]) = <<NULL, NULL, NULL>>
       /\ (\E i \in DOMAIN db : EnrichCols(db'[i]) # EnrichCols(db[i])) => CommitRow(1)
      ]_vars

\* C11's case: in its second run the Batch Loader has executed an upsert for
\* the tweet_id of a row that is already enriched.
C11_Witness ==
    /\ runs = 2
    /\ lpc = "commit"
    /\ \E i \in DOMAIN db, k \in DOMAIN ltxn :
          /\ ltxn[k][1] = db[i].tweet_id
          /\ db[i].tweet_vector # NULL
          /\ db[i].tweet_format # NULL

\* The notes rows whose noteId has a status row rated helpful.
IsHelpful(note) ==
    \E j \in DOMAIN status_df :
        /\ status_df[j].noteId = note.noteId
        /\ status_df[j].currentStatus = "CURRENTLY_RATED_HELPFUL"

\* The position in the notes file of the first helpful note of a post.
FirstHelpful(tweetId) ==
    CHOOSE i \in DOMAIN notes_df :
        /\ notes_df[i].tweetId = tweetId /\ IsHelpful(notes_df[i])
        /\ \A j \in 1 .. (i - 1) :
              ~(notes_df[j].tweetId = tweetId /\ IsHelpful(notes_df[j]))

\* C12: once main is past the filter and the deduplication (or has left on
\* an empty filter result), the table has exactly one row per tweetId that
\* occurs among the helpful notes, that row being the first helpful note of
\* the tweetId in file order, and no row of a note that is not helpful.
C12_FilterDedup ==
    fpc \in {"ready", "exit"} =>
        LET helpfulIds == {notes_df[i].tweetId : i \in {k \in DOMAIN notes_df : IsHelpful(notes_df[k])}}
        IN  /\ \A t \in helpfulIds :
                  /\ Cardinality({k \in DOMAIN helpful_notes : helpful_notes[k].tweetId = t}) = 1
                  /\ \E k \in DOMAIN helpful_notes : helpful_notes[k] = notes_df[FirstHelpful(t)]
            /\ \A k \in DOMAIN helpful_notes :
                  /\ IsHelpful(helpful_notes[k])
                  /\ helpful_notes[k].tweetId \in helpfulIds
            /\ Len(helpful_notes) = Cardinality(helpfulIds)

\* C12's case: the deduplication has run on a file where a post has a note
\* that is not helpful before two helpful ones, a noteId has two helpful
\* status rows, and the surviving row is the first helpful note.
C12_Witness ==
    /\ fpc = "ready"
    /\ Len(notes_df) = 3
    /\ \A i \in DOMAIN notes_df : notes_df[i].tweetId = 7
    /\ ~IsHelpful(notes_df[1]) /\ IsHelpful(notes_df[2]) /\ IsHelpful(notes_df[3])
    /\ notes_df[2] # notes_df[3]
    /\ MatchCount(notes_df[2].noteId, HelpfulStatus(status_df)) = 2
    /\ helpful_notes = <<notes_df[2]>>

\* The three strategies, in the order of the code.
StrategyOrder == <<"zip", "tsv", "legacy">>

\* The strategies are taken in order, and a file that exists is not fetched.
StrategiesInOrder ==
    /\ tried' = SubSeq(StrategyOrder, 1, Len(tried'))
    /\ (DatasetStart /\ ds <= Len(DATASETS) /\ LocalTsvPath(date, DATASETS[ds]) \in fs) =>
          (tried' = <<>> /\ fs' = fs /\ dpc' = "dataset" /\ ds' = ds + 1)
    /\ (DatasetStart /\ ds <= Len(DATASETS) /\ LocalTsvPath(date, DATASETS[ds]) \notin fs) =>
          dpc' = "zip"
    /\ (ds' = ds + 1) => LocalTsvPath(date, DATASETS[ds]) \in fs'

\* C13 as stated: within a day each dataset that is not present is tried
\* with the strategies in order, and the day is failed only by a dataset
\* that has failed all three.
C13_FailedOnlyAfterAllThree ==
    [][/\ StrategiesInOrder
       /\ (success /\ ~success') => tried' = StrategyOrder
      ]_vars

\* C13, amended: within a day each dataset that is not present is tried with
\* the strategies in order; the day is failed by a dataset that has failed
\* all three, and also by a dataset whose archive was downloaded and then
\* held no .tsv or could not be extracted, strategies 2 and 3 left untried;
\* a failed day is followed by the next day.
C13_FailedAfterAllThreeOrBadArchive ==
    [][/\ StrategiesInOrder
       /\ (success /\ ~success') =>
              \/ (TryLegacy(FALSE) /\ tried' = StrategyOrder)
              \/ ((TryZip("no_tsv") \/ TryZip("raised")) /\ tried' = <<"zip">>)
       /\ (TryLegacy(FALSE) \/ TryZip("no_tsv") \/ TryZip("raised")) =>
              (~success' /\ dpc' = "dayend")
       /\ (DayEnd /\ ~success) => (days_ago' = days_ago + 1 /\ dpc' = "day" /\ paths' = paths)
      ]_vars

\* C13's case: the first dataset of the day was obtained, the archive of the
\* second was downloaded and found unusable, and the day is failed with
\* strategies 2 and 3 untried.
C13_Witness ==
    /\ dpc = "dayend"
    /\ ~success
    /\ ds = Len(DATASETS)
    /\ tried = <<"zip">>
    /\ LocalTsvPath(date, DATASETS[1]) \in fs

\* The paths of one day, in the order of DATASETS.
DayPaths(day) == [k \in DOMAIN DATASETS |-> LocalTsvPath(day, DATASETS[k])]

\* C14: the passes over the days are taken in order, pass k for the day k
\* days before the clock's day at its start (today, yesterday, the day
\* before); a pass is followed by another only when the day failed, some
\* dataset of it missing; the first day with every dataset obtained ends
\* the attempt, returning the paths of that one day, each with its file in
\* place; after the last of the 3 days None is returned, on which main exits
\* and nothing is loaded.
C14_FirstFullDayOrNone ==
    [][/\ (DayStart /\ days_ago < DAYS_TRIED) => date' = now - days_ago
       /\ days_ago <= DAYS_TRIED
       /\ days_ago' \in {days_ago, days_ago + 1}
       /\ (days_ago' = days_ago + 1) =>
              /\ ~success
              /\ \E k \in DOMAIN DATASETS : LocalTsvPath(date, DATASETS[k]) \notin fs
       /\ (DayEnd /\ success) => (dpc' = "returned" /\ paths' # NULL)
       /\ (dpc # "returned" /\ dpc' = "returned") =>
              \/ /\ days_ago < DAYS_TRIED
                 /\ success
                 /\ paths' = Val(DayPaths(date))
                 /\ \A k \in DOMAIN DATASETS : LocalTsvPath(date, DATASETS[k]) \in fs'
                 /\ fpc' = "load"
              \/ /\ days_ago = DAYS_TRIED
                 /\ paths' = NULL
                 /\ fpc' = "exit"
       /\ (dpc' = "returned" /\ paths' = NULL) =>
              (fpc' = "exit" /\ helpful_notes' = <<>> /\ db' = <<>>)
       /\ (dpc' # "returned") => (fpc' = "download" /\ helpful_notes' = <<>>)
      ]_vars

\* C14's case: two days failed, the third gave every dataset; data/ also
\* holds a file of another day, and main has gone on to filter the notes.
C14_Witness ==
    /\ dpc = "returned"
    /\ days_ago = DAYS_TRIED - 1
    /\ paths = Val(DayPaths(date))
    /\ \E f \in fs : f[1] # date
    /\ fpc = "ready"
    /\ helpful_notes # <<>>

\* C15: the format fetch_tweet_details returns for a successful answer is
\* Video when the body has a "video" key, with photos or without; Photo when
\* it has none and a "photos" list that is not empty; and Text when it has
\* no "video" key and no "photos" key or an empty "photos" list.
C15_FormatClassification ==
    [][\A resp \in OkResponses :
          (AtApiCall(1) /\ HandleRow(1, resp)) =>
              LET data == resp.data[1]
                  fmt  == result'[1][2]
              IN  /\ result'[1] # NULL
                  /\ data.video => fmt = "Video"
                  /\ (~data.video /\ data.photos # NULL /\ data.photos[1] >= 1) =>
                        fmt = "Photo"
                  /\ (~data.video /\ data.photos = NULL) => fmt = "Text"
                  /\ (~data.video /\ data.photos = Val(0)) => fmt = "Text"
      ]_vars

\* C15's case: an answer was classified as Photo and the UPDATE that stores
\* the format is open.
C15_Witness ==
    /\ pc[1] = "commit"
    /\ result[1] = <<"claim", "Photo">>
    /\ etxn[1] # NULL
    /\ etxn[1][1].cols["tweet_format"] = Val("Photo")

\* The row of the table a hit was made from.
RowOf(table, hit) == CHOOSE i \in DOMAIN table : table[i].tweet_id = hit.tweet_id

\* What search owes on every list it returns, whatever the rows: at most 5
\* hits, in ascending order of distance, each from a row with a
\* tweet_vector, with similarity = 1 - distance and is_match exactly when
\* the distance is below 0.4.
HitsWellFormed(table, r) ==
    /\ Len(r) <= SEARCH_LIMIT
    /\ \A a, b \in DOMAIN r : a < b => r[a].distance <= r[b].distance
    /\ \A k \in DOMAIN r :
          /\ table[RowOf(table, r[k])].tweet_vector # NULL
          /\ r[k].similarity = UNIT - r[k].distance
          /\ r[k].is_match <=> (r[k].distance < SIMILARITY_THRESHOLD)

\* C16: a search returns at most 5 hits, in ascending order of distance,
\* each from a record with a tweet_vector and so from no record that still
\* needs enrichment and from no record marked permanently missing, with
\* similarity = 1 - distance and is_match exactly when distance < 0.4.
C16_SearchContract ==
    [][\A q \in Queries :
          Search(q) =>
              LET r == response'[1].results
              IN  /\ HitsWellFormed(db, r)
                  /\ \A k \in DOMAIN r :
                        /\ ~Selectable(db[RowOf(db, r[k])])
                        /\ ~Missing(db[RowOf(db, r[k])])
      ]_vars

\* C17: the loop reaches its exit only by a get_null_rows that returned no
\* row, and in the state it exits in (the step writes nothing, and no other
\* process writes within it) no row has tweet_text NULL with a tweet_format
\* that is not 'Missing': every row has a text or is marked missing.
C17_ExitsAtFixedPoint ==
    [][(pc[1] # "done" /\ pc'[1] = "done") =>
          /\ pc[1] = "fetch"
          /\ GetNullRows(1)
          /\ get_null_rows(db, ENRICH_BATCH_SIZE) = {<<>>}
          /\ db' = db
          /\ \A i \in DOMAIN db' :
                ~(db'[i].tweet_text = NULL /\ db'[i].tweet_format # Val("Missing"))
          /\ \A i \in DOMAIN db' :
                db'[i].tweet_text # NULL \/ db'[i].tweet_format = Val("Missing")
      ]_vars

\* C17's case: the loop has exited on a loaded store of two records, one
\* enriched and one permanently missing, the Batch Loader being done.
C17_Witness ==
    /\ pc[1] = "done"
    /\ lpc = "done"
    /\ Len(db) = 2
    /\ \E i, j \in DOMAIN db :
          /\ db[i].tweet_vector # NULL /\ db[i].tweet_text # NULL
          /\ db[j].tweet_format = Val("Missing")

\* A record whose processing calls the content API and gets an answer of
\* success or not-found.
Answered(row) ==
    /\ row.tweet_id >= 0
    /\ row.tweet_id \notin FailingPosts

\* C18: under weak fairness of the loop's steps, every record that is in
\* the table while the loop runs and whose request would be answered with
\* success or not-found comes to have a tweet_text (enriched, or marked
\* missing), also when as many records as get_null_rows' limit fail on
\* every attempt.
C18_NoStarvation ==
    \A i \in 1 .. Cardinality(NoteRows) :
        (i \in DOMAIN db /\ Answered(db[i]) /\ pc[1] # "done") ~>
            (i \in DOMAIN db /\ db[i].tweet_text # NULL)

====
